---- MODULE Spec2Model ----
(***************************************************************************)
(* SmartShop: the cart aggregate (app/models/cart.py), the cart service    *)
(* with its optimizer (app/services/cart/cart_service.py), in-memory store,*)
(* and the search orchestrator (app/services/search_service.py).           *)
(*                                                                         *)
(* Strings that the code inspects character by character (product names,  *)
(* delivery times) are sequences of one-character strings.  Prices are     *)
(* whole rupees.  Optional[T] is a sequence: <<>> is None, <<x>> is x.     *)
(***************************************************************************)
EXTENDS Integers, Sequences, FiniteSets, TLC

VARIABLES carts, nextId, now, call

vars == <<carts, nextId, now, call>>

(* ------------------------------ bounds --------------------------------- *)

MaxIds == 3
MaxQty == 5
MaxTime == 1

\* the longest item list of a cart handed to the optimizer
MaxItems == 4

(* ------------------------- Optional[T] helpers ------------------------- *)

None == <<>>

Some(x) == <<x>>

(* ------------------------------ strings -------------------------------- *)

\* the characters the modelled strings use, in code-point order
Alphabet ==
  <<" ", "-", "/", "0", "1", "2", "3", "4", "5", "6", "7", "8", "9",
    "A", "B", "C", "D", "E", "F", "G", "H", "I", "J", "K", "L", "M",
    "N", "O", "P", "Q", "R", "S", "T", "U", "V", "W", "X", "Y", "Z",
    "a", "b", "c", "d", "e", "f", "g", "h", "i", "j", "k", "l", "m",
    "n", "o", "p", "q", "r", "s", "t", "u", "v", "w", "x", "y", "z">>

Chars == {Alphabet[i] : i \in 1..Len(Alphabet)}

OrdTable == [c \in Chars |-> CHOOSE i \in 1..Len(Alphabet) : Alphabet[i] = c]

\* rank of a character in code-point order (ord)
Ord(c) == OrdTable[c]

UpperFirst == Ord("A")

LowerFirst == Ord("a")

IsUpper(c) == Ord(c) >= UpperFirst /\ Ord(c) < UpperFirst + 26

IsDigit(c) == Ord(c) >= Ord("0") /\ Ord(c) <= Ord("9")

DigitVal(c) == Ord(c) - Ord("0")

\* str.lower()
lower(s) ==
  [i \in 1..Len(s) |->
     IF IsUpper(s[i]) THEN Alphabet[Ord(s[i]) - UpperFirst + LowerFirst]
     ELSE s[i]]

\* sub in s
Contains(s, sub) ==
  \E i \in 1..(Len(s) - Len(sub) + 1) : SubSeq(s, i, i + Len(sub) - 1) = sub

\* s < t for Python str: lexicographic by code point, a proper prefix is less
StrLess(s, t) ==
  \/ /\ Len(s) < Len(t)
     /\ SubSeq(t, 1, Len(s)) = s
  \/ \E i \in 1..Len(s) :
       /\ i <= Len(t)
       /\ SubSeq(s, 1, i - 1) = SubSeq(t, 1, i - 1)
       /\ Ord(s[i]) < Ord(t[i])

RECURSIVE DigitsValue(_)
\* int() of a string of decimal digits
DigitsValue(d) ==
  IF d = <<>> THEN 0
  ELSE 10 * DigitsValue(SubSeq(d, 1, Len(d) - 1)) + DigitVal(d[Len(d)])

\* re.search(r'(\d+)', s): the first maximal run of digits, None when absent
SearchDigits(s) ==
  IF \A i \in 1..Len(s) : ~IsDigit(s[i]) THEN None
  ELSE LET b == CHOOSE i \in 1..Len(s) :
                  /\ IsDigit(s[i])
                  /\ \A j \in 1..(i - 1) : ~IsDigit(s[j])
           e == CHOOSE i \in b..Len(s) :
                  /\ \A j \in b..i : IsDigit(s[j])
                  /\ (i = Len(s) \/ ~IsDigit(s[i + 1]))
       IN Some(SubSeq(s, b, e))

RECURSIVE IntToStr(_)
\* f"{n}" for n >= 0
IntToStr(n) ==
  IF n < 10 THEN <<Alphabet[Ord("0") + n]>>
  ELSE IntToStr(n \div 10) \o <<Alphabet[Ord("0") + (n % 10)]>>

(* ------------------------------ products ------------------------------- *)

Platforms == {"amazon", "flipkart", "blinkit", "zepto", "meesho", "nykaa", "instamart"}

\* the products that requests put into carts
Products ==
  { [name |-> <<"M","i","l","k">>, platform |-> "blinkit",
     platform_type |-> "quick_commerce", platform_product_id |-> "a",
     current_price |-> 500, original_price |-> Some(600),
     delivery_time |-> <<"5"," ","m","i","n","s">>],
    [name |-> <<"m","i","l","k">>, platform |-> "amazon",
     platform_type |-> "ecommerce", platform_product_id |-> "b",
     current_price |-> 300, original_price |-> None,
     delivery_time |-> <<"1","0"," ","m","i","n","s">>],
    [name |-> <<"R","i","c","e">>, platform |-> "amazon",
     platform_type |-> "ecommerce", platform_product_id |-> "c",
     current_price |-> 300, original_price |-> Some(200),
     delivery_time |-> <<"2"," ","H","o","u","r","s">>] }

\* delivery times as the scrapers write them, and one in no known format
Mins30 == <<"3","0"," ","m","i","n","s">>

Mins90 == <<"9","0"," ","m","i","n","s">>

Hours2 == <<"2"," ","h","o","u","r","s">>

Days3 == <<"3"," ","d","a","y","s">>

Sometime == <<"s","o","m","e","t","i","m","e">>

DeliveryTimes == {Mins30, Mins90, Hours2, Days3, Sometime}

\* listings of two product names, one per delivery time, on one platform
TimedProducts ==
  { [name |-> n, platform |-> "zepto", platform_type |-> "quick_commerce",
     platform_product_id |-> "t", current_price |-> 100, original_price |-> None,
     delivery_time |-> d] : n \in {<<"m","i","l","k">>, <<"R","i","c","e">>},
                            d \in DeliveryTimes }

\* selected_platform arguments of add_item_to_cart
PlatformInputs == {None, Some("amazon")}

\* quantity arguments of add_item_to_cart and update_item_quantity
QuantityInputs == {-1, 0, 2, 3}

\* an id that uuid4 never issues
NoSuchId == 0

(* ------------------------------ CartItem ------------------------------- *)

\* the validation with ge=0 instead of ge=1
CartItemValid_ge0(quantity) == quantity >= 0

\* CartItem(...): pydantic validation of quantity (Field(ge=1))
CartItemValid(quantity) == quantity >= 1

\* CartItem.total_price
item_total_price(item) == item.product.current_price * item.quantity

\* CartItem.total_original_price: None when original_price is absent or falsy
item_total_original_price(item) ==
  IF item.product.original_price # None /\ item.product.original_price[1] # 0
  THEN Some(item.product.original_price[1] * item.quantity)
  ELSE None

(* -------------------------------- Cart --------------------------------- *)

RECURSIVE SumSeq(_)
\* sum(...) over a list of numbers
SumSeq(xs) == IF xs = <<>> THEN 0 ELSE xs[1] + SumSeq(Tail(xs))

\* Cart.total_items
total_items(cart) == SumSeq([i \in 1..Len(cart.items) |-> cart.items[i].quantity])

\* Cart.total_price
total_price(cart) ==
  SumSeq([i \in 1..Len(cart.items) |-> item_total_price(cart.items[i])])

\* the contribution with no fallback to total_price
original_contribution_no_fallback(item) ==
  LET t == item_total_original_price(item)
  IN IF t # None /\ t[1] # 0 THEN t[1] ELSE 0

\* the contribution of one item to Cart.total_original_price
original_contribution(item) ==
  LET t == item_total_original_price(item)
  IN IF t # None /\ t[1] # 0 THEN t[1] ELSE item_total_price(item)

\* Cart.total_original_price
total_original_price(cart) ==
  SumSeq([i \in 1..Len(cart.items) |-> original_contribution(cart.items[i])])

\* Cart.total_savings
total_savings(cart) == total_original_price(cart) - total_price(cart)

\* Cart.platforms_used
platforms_used(items) == {items[i].selected_platform : i \in 1..Len(items)}

RECURSIVE MinStr(_)
\* min(list of str): the first smallest element
MinStr(xs) ==
  IF Len(xs) = 1 THEN xs[1]
  ELSE LET m == MinStr(SubSeq(xs, 1, Len(xs) - 1))
       IN IF StrLess(xs[Len(xs)], m) THEN xs[Len(xs)] ELSE m

NA == <<"N", "/", "A">>

\* Cart.delivery_summary["fastest_delivery"]
fastest_delivery(cart) ==
  IF cart.items = <<>> THEN NA
  ELSE MinStr([i \in 1..Len(cart.items) |-> cart.items[i].product.delivery_time])

\* existing_index comparing the stored item's platform with the new product's own
\* platform instead of the new item's selected platform
existing_index_own_platform(items, item) ==
  IF \E i \in 1..Len(items) :
       /\ items[i].product.platform_product_id = item.product.platform_product_id
       /\ items[i].selected_platform = item.product.platform
  THEN CHOOSE i \in 1..Len(items) :
         /\ items[i].product.platform_product_id = item.product.platform_product_id
         /\ items[i].selected_platform = item.product.platform
         /\ \A j \in 1..(i - 1) :
              ~ /\ items[j].product.platform_product_id = item.product.platform_product_id
                /\ items[j].selected_platform = item.product.platform
  ELSE 0

\* the index of the first item matching product identity and platform, 0 if none
existing_index(items, item) ==
  IF \E i \in 1..Len(items) :
       /\ items[i].product.platform_product_id = item.product.platform_product_id
       /\ items[i].selected_platform = item.selected_platform
  THEN CHOOSE i \in 1..Len(items) :
         /\ items[i].product.platform_product_id = item.product.platform_product_id
         /\ items[i].selected_platform = item.selected_platform
         /\ \A j \in 1..(i - 1) :
              ~ /\ items[j].product.platform_product_id = item.product.platform_product_id
                /\ items[j].selected_platform = item.selected_platform
  ELSE 0

\* add_item storing the new quantity over the existing one instead of adding it
add_item_overwrite(cart, item, t) ==
  LET k == existing_index(cart.items, item)
  IN [cart EXCEPT
        !.items = IF k # 0
                  THEN [cart.items EXCEPT ![k].quantity = item.quantity]
                  ELSE Append(cart.items, item),
        !.updated_at = t]

\* Cart.add_item at time t
add_item(cart, item, t) ==
  LET k == existing_index(cart.items, item)
  IN [cart EXCEPT
        !.items = IF k # 0
                  THEN [cart.items EXCEPT ![k].quantity = @ + item.quantity]
                  ELSE Append(cart.items, item),
        !.updated_at = t]

\* Cart.remove_item at time t: the new cart and the returned flag
remove_item(cart, item_id, t) ==
  LET kept == SelectSeq(cart.items, LAMBDA it : it.id # item_id)
  IN IF Len(kept) < Len(cart.items)
     THEN [cart |-> [cart EXCEPT !.items = kept, !.updated_at = t], ret |-> TRUE]
     ELSE [cart |-> [cart EXCEPT !.items = kept], ret |-> FALSE]

\* list.remove(x): drops the first element equal to x
list_remove(xs, x) ==
  LET k == CHOOSE i \in 1..Len(xs) : xs[i] = x /\ \A j \in 1..(i - 1) : xs[j] # x
  IN SubSeq(xs, 1, k - 1) \o SubSeq(xs, k + 1, Len(xs))

\* update_quantity removing the item only for quantity < 0
update_quantity_negative_only(cart, item_id, quantity, t) ==
  IF \E i \in 1..Len(cart.items) : cart.items[i].id = item_id
  THEN LET k == CHOOSE i \in 1..Len(cart.items) :
                  /\ cart.items[i].id = item_id
                  /\ \A j \in 1..(i - 1) : cart.items[j].id # item_id
       IN [cart |-> [cart EXCEPT
                       !.items = IF quantity < 0
                                 THEN list_remove(cart.items, cart.items[k])
                                 ELSE [cart.items EXCEPT ![k].quantity = quantity],
                       !.updated_at = t],
           ret |-> TRUE]
  ELSE [cart |-> cart, ret |-> FALSE]

\* Cart.update_quantity at time t: the new cart and the returned flag
update_quantity(cart, item_id, quantity, t) ==
  IF \E i \in 1..Len(cart.items) : cart.items[i].id = item_id
  THEN LET k == CHOOSE i \in 1..Len(cart.items) :
                  /\ cart.items[i].id = item_id
                  /\ \A j \in 1..(i - 1) : cart.items[j].id # item_id
       IN [cart |-> [cart EXCEPT
                       !.items = IF quantity <= 0
                                 THEN list_remove(cart.items, cart.items[k])
                                 ELSE [cart.items EXCEPT ![k].quantity = quantity],
                       !.updated_at = t],
           ret |-> TRUE]
  ELSE [cart |-> cart, ret |-> FALSE]

\* clear that empties the list and forgets the time stamp
clear_no_stamp(cart, t) == [cart EXCEPT !.items = <<>>]

\* Cart.clear at time t
clear(cart, t) == [cart EXCEPT !.items = <<>>, !.updated_at = t]

(* ---------------------------- cart optimizer --------------------------- *)

Sentinel == 999

MinutesPerHour == 60

MinutesPerDay == 1440

\* CartService._parse_delivery_time
parse_delivery_time(delivery_time) ==
  LET l == lower(delivery_time)
      m == SearchDigits(delivery_time)
  IN IF Contains(l, <<"m","i","n">>)
     THEN (IF m # None THEN DigitsValue(m[1]) ELSE Sentinel)
     ELSE IF Contains(l, <<"h","o","u","r">>)
     THEN (IF m # None THEN DigitsValue(m[1]) * MinutesPerHour ELSE Sentinel)
     ELSE IF Contains(l, <<"d","a","y">>)
     THEN (IF m # None THEN DigitsValue(m[1]) * MinutesPerDay ELSE Sentinel)
     ELSE Sentinel

\* the keys of a dict filled in list order, given each item's key: the
\* distinct keys by first occurrence
group_keys(keys) ==
  LET firsts == SelectSeq([i \in 1..Len(keys) |-> i],
                          LAMBDA i : \A j \in 1..(i - 1) : keys[j] # keys[i])
  IN [n \in 1..Len(firsts) |-> keys[firsts[n]]]

\* the list stored under key k: the items whose key is k, in list order
group_of(items, keys, k) ==
  LET at == SelectSeq([i \in 1..Len(items) |-> i], LAMBDA i : keys[i] = k)
  IN [n \in 1..Len(at) |-> items[at[n]]]

\* min picking the last element with the smallest key value
min_by_last(xs, vals) ==
  xs[CHOOSE i \in 1..Len(xs) :
       /\ \A j \in 1..Len(xs) : vals[i] <= vals[j]
       /\ \A j \in (i + 1)..Len(xs) : vals[j] > vals[i]]

\* min(xs, key=...), given each element's key value: the first element with
\* the smallest one
min_by(xs, vals) ==
  xs[CHOOSE i \in 1..Len(xs) :
       /\ \A j \in 1..Len(xs) : vals[i] <= vals[j]
       /\ \A j \in 1..(i - 1) : vals[j] > vals[i]]

\* max picking the last element with the largest key value
max_by_last(xs, vals) ==
  xs[CHOOSE i \in 1..Len(xs) :
       /\ \A j \in 1..Len(xs) : vals[i] >= vals[j]
       /\ \A j \in (i + 1)..Len(xs) : vals[j] < vals[i]]

\* max(xs, key=...), given each element's key value: the first element with
\* the largest one
max_by(xs, vals) ==
  xs[CHOOSE i \in 1..Len(xs) :
       /\ \A j \in 1..Len(xs) : vals[i] >= vals[j]
       /\ \A j \in 1..(i - 1) : vals[j] < vals[i]]

\* grouping by the name as written
product_name_key_exact(item) == item.product.name

\* name.lower() of every name of the catalogue
LoweredName == [n \in {p.name : p \in Products} |-> lower(n)]

\* item.product.name.lower()
product_name_key(item) == LoweredName[item.product.name]

\* item.selected_platform
platform_key(item) == item.selected_platform

\* self._parse_delivery_time of every delivery time of the catalogue
ParsedMinutes ==
  [d \in {p.delivery_time : p \in Products \cup TimedProducts} |->
     parse_delivery_time(d)]

\* self._parse_delivery_time(item.product.delivery.delivery_time)
item_minutes(item) == ParsedMinutes[item.product.delivery_time]

\* the product_groups of _optimize_for_price and _optimize_for_speed, in
\* dict order
product_groups(items) ==
  LET keys == [i \in 1..Len(items) |-> product_name_key(items[i])]
      names == group_keys(keys)
  IN [n \in 1..Len(names) |-> group_of(items, keys, names[n])]

\* CartService._optimize_for_price
optimize_for_price(items) ==
  LET groups == product_groups(items)
  IN [n \in 1..Len(groups) |->
        min_by(groups[n], [i \in 1..Len(groups[n]) |-> item_total_price(groups[n][i])])]

\* CartService._optimize_for_speed
optimize_for_speed(items) ==
  LET groups == product_groups(items)
  IN [n \in 1..Len(groups) |->
        min_by(groups[n], [i \in 1..Len(groups[n]) |-> item_minutes(groups[n][i])])]

\* CartService._optimize_for_minimum_platforms
optimize_for_minimum_platforms(items) ==
  LET keys == [i \in 1..Len(items) |-> platform_key(items[i])]
      platforms == group_keys(keys)
  IN IF platforms = <<>> THEN <<>>
     ELSE group_of(items, keys,
                   max_by(platforms,
                          [n \in 1..Len(platforms) |->
                             Len(group_of(items, keys, platforms[n]))]))

\* CartService._optimize_balanced
optimize_balanced(items, prioritize_quick_delivery) ==
  IF prioritize_quick_delivery THEN optimize_for_speed(items)
  ELSE optimize_for_price(items)

RECURSIVE MaxSeq(_)
\* max(list of int)
MaxSeq(xs) ==
  IF Len(xs) = 1 THEN xs[1]
  ELSE LET m == MaxSeq(Tail(xs)) IN IF xs[1] >= m THEN xs[1] ELSE m

\* the label rendered from the minutes of the first item
calculate_delivery_time_first(items) ==
  IF items = <<>> THEN NA
  ELSE LET max_minutes == item_minutes(items[1])
       IN IF max_minutes < MinutesPerHour
          THEN IntToStr(max_minutes) \o <<" ","m","i","n","s">>
          ELSE IF max_minutes < MinutesPerDay
          THEN IntToStr(max_minutes \div MinutesPerHour) \o <<" ","h","o","u","r","s">>
          ELSE IntToStr(max_minutes \div MinutesPerDay) \o <<" ","d","a","y","s">>

\* CartService._calculate_delivery_time
calculate_delivery_time(items) ==
  IF items = <<>> THEN NA
  ELSE LET max_minutes == MaxSeq([i \in 1..Len(items) |-> item_minutes(items[i])])
       IN IF max_minutes < MinutesPerHour
          THEN IntToStr(max_minutes) \o <<" ","m","i","n","s">>
          ELSE IF max_minutes < MinutesPerDay
          THEN IntToStr(max_minutes \div MinutesPerHour) \o <<" ","h","o","u","r","s">>
          ELSE IntToStr(max_minutes \div MinutesPerDay) \o <<" ","d","a","y","s">>

Modes == {"best_price", "fastest_delivery", "minimum_platforms", "balanced"}

\* the body with the optimized total taken over the whole cart
optimization_result_cart_total(cart, mode, prioritize_quick_delivery) ==
  LET optimized_items ==
        IF mode = "best_price" THEN optimize_for_price(cart.items)
        ELSE IF mode = "fastest_delivery" THEN optimize_for_speed(cart.items)
        ELSE IF mode = "minimum_platforms" THEN optimize_for_minimum_platforms(cart.items)
        ELSE optimize_balanced(cart.items, prioritize_quick_delivery)
  IN [original_total |-> total_price(cart),
      optimized_total |-> total_price(cart),
      savings |-> 0,
      delivery_time |-> calculate_delivery_time(optimized_items),
      platforms_used |-> platforms_used(optimized_items),
      cart_items |-> optimized_items]

\* the body of CartService.optimize_cart for a cart that exists and has items
optimization_result(cart, mode, prioritize_quick_delivery) ==
  LET original_total == total_price(cart)
      optimized_items ==
        IF mode = "best_price" THEN optimize_for_price(cart.items)
        ELSE IF mode = "fastest_delivery" THEN optimize_for_speed(cart.items)
        ELSE IF mode = "minimum_platforms" THEN optimize_for_minimum_platforms(cart.items)
        ELSE optimize_balanced(cart.items, prioritize_quick_delivery)
      optimized_total ==
        SumSeq([i \in 1..Len(optimized_items) |-> item_total_price(optimized_items[i])])
  IN [original_total |-> original_total,
      optimized_total |-> optimized_total,
      savings |-> original_total - optimized_total,
      delivery_time |-> calculate_delivery_time(optimized_items),
      platforms_used |-> platforms_used(optimized_items),
      cart_items |-> optimized_items]

(* ----------------------------- cart service ---------------------------- *)

\* CartService.get_cart with the in-memory store: self._carts.get(cart_id)
get_cart(cart_id) == IF cart_id \in DOMAIN carts THEN Some(carts[cart_id]) ELSE None

\* the cart ids of requests: every stored cart and a cart that does not exist
CartIdInputs == DOMAIN carts \cup {NoSuchId}

\* the item ids of requests: every item of every cart and an item that does not exist
ItemIdInputs ==
  UNION {{carts[c].items[i].id : i \in 1..Len(carts[c].items)} : c \in DOMAIN carts}
    \cup {NoSuchId}

\* what a service method leaves behind: the store, the next unused id and the
\* value it returns
Outcome(store, next, ret) == [carts |-> store, nextId |-> next, ret |-> ret]

\* CartService.create_cart: uuid4 gives an id never issued before; returns the cart
create_cart ==
  LET cart == [id |-> nextId, items |-> <<>>, updated_at |-> now]
  IN Outcome((nextId :> cart) @@ carts, nextId + 1, cart)

\* CartService.add_item_to_cart: uuid4 gives an id never issued before
add_item_to_cart(cart_id, product, quantity, selected_platform) ==
  LET platform == IF selected_platform # None THEN selected_platform[1]
                  ELSE product.platform
      cart_item == [id |-> nextId, product |-> product, quantity |-> quantity,
                    selected_platform |-> platform]
      found == cart_id \in DOMAIN carts
      ok == found /\ CartItemValid(quantity)
      merged == ok /\ existing_index(carts[cart_id].items, cart_item) # 0
  IN Outcome(IF ok
             THEN [carts EXCEPT ![cart_id] = add_item(carts[cart_id], cart_item, now)]
             ELSE carts,
             IF ok /\ ~merged THEN nextId + 1 ELSE nextId,
             ok)

\* CartService.remove_item_from_cart
remove_item_from_cart(cart_id, item_id) ==
  LET found == cart_id \in DOMAIN carts
      r == remove_item(carts[cart_id], item_id, now)
      success == found /\ r.ret
  IN Outcome(IF success THEN [carts EXCEPT ![cart_id] = r.cart] ELSE carts,
             nextId, success)

\* CartService.update_item_quantity
update_item_quantity(cart_id, item_id, quantity) ==
  LET found == cart_id \in DOMAIN carts
      r == update_quantity(carts[cart_id], item_id, quantity, now)
      success == found /\ r.ret
  IN Outcome(IF success THEN [carts EXCEPT ![cart_id] = r.cart] ELSE carts,
             nextId, success)

\* CartService.clear_cart
clear_cart(cart_id) ==
  LET found == cart_id \in DOMAIN carts
  IN Outcome(IF found THEN [carts EXCEPT ![cart_id] = clear(carts[cart_id], now)]
             ELSE carts,
             nextId, found)

\* the guard without the test of the item list
no_cart_only(cart) == cart = None

\* if not cart or not cart.items
no_cart_or_no_items(cart) == cart = None \/ cart[1].items = <<>>

\* optimize_cart that writes the kept items back into the stored cart
optimize_cart_persisting(cart_id, mode, prioritize_quick_delivery) ==
  LET cart == get_cart(cart_id)
      res == optimization_result(cart[1], mode, prioritize_quick_delivery)
  IN IF no_cart_or_no_items(cart) THEN Outcome(carts, nextId, None)
     ELSE Outcome([carts EXCEPT ![cart_id] =
                     [@ EXCEPT !.items = res.cart_items, !.updated_at = now]],
                  nextId, Some(res))

\* CartService.optimize_cart: None or the result; the store is left alone
optimize_cart(cart_id, mode, prioritize_quick_delivery) ==
  LET cart == get_cart(cart_id)
  IN Outcome(carts, nextId,
             IF no_cart_or_no_items(cart) THEN None
             ELSE Some(optimization_result(cart[1], mode, prioritize_quick_delivery)))

\* the requests to optimize: the flag is read in balanced mode only
OptimizationRequests ==
  {r \in Modes \X BOOLEAN : r[2] => r[1] = "balanced"}

\* no search is under way
NoCall == <<>>

Init ==
  /\ carts = <<>>
  /\ nextId = 1
  /\ now = 0
  /\ call = NoCall

\* datetime.utcnow() advances between calls
Tick ==
  /\ now < MaxTime
  /\ now' = now + 1
  /\ UNCHANGED <<carts, nextId, call>>

\* the ids and the quantities the outcome r holds stay within the bounds
WithinBounds(r) ==
  /\ r.nextId <= MaxIds + 1
  /\ \A c \in DOMAIN r.carts :
       \A i \in 1..Len(r.carts[c].items) : r.carts[c].items[i].quantity <= MaxQty

\* the calls of the service methods: each leaves the store as the outcome of
\* its method has it

CreateCart ==
  LET r == create_cart
  IN /\ WithinBounds(r)
     /\ carts' = r.carts
     /\ nextId' = r.nextId
     /\ UNCHANGED <<now, call>>

AddItemToCart(cart_id, product, quantity, selected_platform) ==
  LET r == add_item_to_cart(cart_id, product, quantity, selected_platform)
  IN /\ WithinBounds(r)
     /\ carts' = r.carts
     /\ nextId' = r.nextId
     /\ UNCHANGED <<now, call>>

RemoveItemFromCart(cart_id, item_id) ==
  LET r == remove_item_from_cart(cart_id, item_id)
  IN /\ carts' = r.carts
     /\ UNCHANGED <<nextId, now, call>>

UpdateItemQuantity(cart_id, item_id, quantity) ==
  LET r == update_item_quantity(cart_id, item_id, quantity)
  IN /\ carts' = r.carts
     /\ UNCHANGED <<nextId, now, call>>

ClearCart(cart_id) ==
  LET r == clear_cart(cart_id)
  IN /\ carts' = r.carts
     /\ UNCHANGED <<nextId, now, call>>

\* a read: the caller gets the result and the store stays as it is
OptimizeCart(cart_id, mode, prioritize_quick_delivery) ==
  LET r == optimize_cart(cart_id, mode, prioritize_quick_delivery)
  IN /\ carts' = r.carts
     /\ UNCHANGED <<nextId, now, call>>

Next ==
  \/ CreateCart
  \/ \E c \in CartIdInputs, p \in Products, q \in QuantityInputs, s \in PlatformInputs :
       AddItemToCart(c, p, q, s)
  \/ \E c \in CartIdInputs, i \in ItemIdInputs : RemoveItemFromCart(c, i)
  \/ \E c \in CartIdInputs, i \in ItemIdInputs, q \in QuantityInputs :
       UpdateItemQuantity(c, i, q)
  \/ \E c \in CartIdInputs : ClearCart(c)
  \/ \E c \in CartIdInputs, r \in OptimizationRequests : OptimizeCart(c, r[1], r[2])

\* the cart service at one instant of the clock
Spec == Init /\ [][Next]_vars

NextClock == Tick \/ Next

\* the cart service with the clock advancing between calls
SpecClock == Init /\ [][NextClock]_vars

\* the (product, selected_platform) pairs an add can store
ItemKeys ==
  {k \in Products \X Platforms :
     \E s \in PlatformInputs :
       k[2] = (IF s # None THEN s[1] ELSE k[1].platform)}

\* the quantities an add can store in a new item
StoredQuantities == {q \in QuantityInputs : CartItemValid(q)}

\* one cart whose items were added in the order of keys with the quantities qs
CartOf(keys, qs) ==
  [id |-> 1,
   items |-> [i \in 1..Len(keys) |->
                [id |-> i + 1, product |-> keys[i][1], quantity |-> qs[i],
                 selected_platform |-> keys[i][2]]],
   updated_at |-> 0]

\* the store holds one cart of up to MaxItems items, no two of them with the
\* same (product, selected_platform) pair
InitOptimize ==
  \E n \in 0..MaxItems :
    \E keys \in [1..n -> ItemKeys], qs \in [1..n -> StoredQuantities] :
      /\ \A i, j \in 1..n : i # j => keys[i] # keys[j]
      /\ carts = <<CartOf(keys, qs)>>
      /\ nextId = n + 2
      /\ now = 0
      /\ call = NoCall

NextOptimize ==
  \E c \in CartIdInputs, r \in OptimizationRequests : OptimizeCart(c, r[1], r[2])

\* the optimizer applied to every cart of up to MaxItems items
SpecOptimize == InitOptimize /\ [][NextOptimize]_vars

(* ------------------------- search orchestrator ------------------------- *)

\* the most products a caller asks for
MaxLimit == 2

\* a call that raised the exception error
Raised(error) == [raised |-> TRUE, error |-> error, value |-> None]

\* a call that returned value
Returned(value) == [raised |-> FALSE, error |-> "", value |-> Some(value)]

\* bool(x) of an Optional[float]: None and 0 are false
truthy_number(x) == x # None /\ x[1] # 0

\* bool(x) of an Optional[str]: None and "" are false
truthy_str(x) == x # None /\ x[1] # <<>>

\* a slice that cuts nothing
Take_all(xs, n) == xs

\* xs[:n]
Take(xs, n) == SubSeq(xs, 1, IF n < Len(xs) THEN n ELSE Len(xs))

\* a < b for tuples of integers of one length
TupleLess(a, b) ==
  \E i \in 1..Len(a) :
    /\ \A j \in 1..(i - 1) : a[j] = b[j]
    /\ a[i] < b[i]

\* sorted(xs, key = ...) for the keys ks of xs: ascending, equal keys keep
\* their order
sorted_by(xs, ks) ==
  LET n == Len(xs)
      rank(i) == Cardinality({j \in 1..n :
                                \/ TupleLess(ks[j], ks[i])
                                \/ (ks[j] = ks[i] /\ j < i)}) + 1
  IN [r \in 1..n |-> xs[CHOOSE i \in 1..n : rank(i) = r]]

\* Product, as far as the orchestrator reads it; a rating is in tenths
ScrapedProduct(pid, platform, platform_type, current_price, rating, category, delivery_time) ==
  [platform_product_id |-> pid, platform |-> platform,
   platform_type |-> platform_type, current_price |-> current_price,
   rating |-> rating, category |-> category, delivery_time |-> delivery_time]

Laptop == <<"l","a","p","t","o","p"," ","u","n","d","e","r"," ","5","0","0","0","0">>
FindMilk == <<"f","i","n","d"," ","M","i","l","k">>
Milk == <<"m","i","l","k">>
Days35 == <<"3","-","5"," ","d","a","y","s">>
Days25 == <<"2","-","5"," ","d","a","y","s">>
Mins1030 == <<"1","0","-","3","0"," ","m","i","n","s">>

\* ProductSearchRequest.query
QueryInputs == {Laptop, FindMilk}

\* what the Flipkart scraper hands back when it finds products: Flipkart
\* listings, unrated and without a category
FlipkartResults ==
  <<ScrapedProduct("f1", "flipkart", "ecommerce", 60000, None, None, Days35),
    ScrapedProduct("f2", "flipkart", "ecommerce", 45000, None, None, Days35),
    ScrapedProduct("f3", "flipkart", "ecommerce", 60000, None, None, Days35)>>

\* what the scraper standing in for a platform hands back for query when it
\* finds products: one rated listing in the category of the query
MockResults(platform, query) ==
  IF platform = "amazon"
  THEN <<ScrapedProduct("a1", "amazon", "ecommerce", 299, Some(38),
                        Some(query), Days25)>>
  ELSE IF platform = "meesho"
  THEN <<ScrapedProduct("m1", "meesho", "ecommerce", 399, Some(48),
                        Some(query), Days25)>>
  ELSE <<ScrapedProduct("b1", "blinkit", "quick_commerce", 350, Some(44),
                        Some(query), Mins1030)>>

\* ProductSearchRequest, validated: min_rating in [0, 5], limit >= 1
RequestInputs ==
  [query : QueryInputs,
   platforms : {None, Some(<<"flipkart">>), Some(<<"amazon", "meesho", "blinkit">>)},
   max_price : {None, Some(0), Some(300)},
   min_rating : {None, Some(0), Some(45)},
   category : {None, Some(Milk)},
   limit : 1..MaxLimit]

\* the Settings object: as declared it has neither IS_VERCEL nor
\* ENABLE_MOCK_FALLBACK; a deployment that sets them has both
SettingsInputs ==
  {[declared |-> FALSE, IS_VERCEL |-> FALSE, ENABLE_MOCK_FALLBACK |-> FALSE]}
    \cup [declared : {TRUE}, IS_VERCEL : BOOLEAN, ENABLE_MOCK_FALLBACK : BOOLEAN]

\* query_parser.parse_query within the 3 s: a ParsedQuery (its constraints'
\* total_budget and delivery_preference, the first truthy min_rating of its
\* products), or a timeout
ParserInputs ==
  {[kind |-> "ok", total_budget |-> Some(50000), min_rating |-> None,
    delivery_preference |-> Some("fast")],
   [kind |-> "ok", total_budget |-> None, min_rating |-> None,
    delivery_preference |-> None],
   [kind |-> "timeout", total_budget |-> None, min_rating |-> None,
    delivery_preference |-> None]}

\* the Flipkart scraper: products, nothing, an exception or a timeout
RealInputs == {"ok", "empty", "exception", "timeout"}

\* the mock scrapers: products, nothing or an exception
MockInputs == {"ok", "empty", "exception"}

\* SearchService._is_natural_language
shopping_words ==
  <<<<"n","e","e","d">>, <<"w","a","n","t">>, <<"b","u","y">>, <<"g","e","t">>,
    <<"f","i","n","d">>, <<"l","o","o","k","i","n","g"," ","f","o","r">>,
    <<"s","e","a","r","c","h"," ","f","o","r">>>>

is_natural_language(query) ==
  \E i \in 1..Len(shopping_words) : Contains(lower(query), shopping_words[i])

\* is_natural_language of each query
NaturalQuery == [q \in QueryInputs |-> is_natural_language(q)]

\* search_products l.28-55: the request after the parsed constraints were
\* written into it
parsed_request(request, parser) ==
  IF NaturalQuery[request.query] /\ parser.kind = "ok"
  THEN [request EXCEPT
          !.max_price = IF @ = None /\ truthy_number(parser.total_budget)
                        THEN parser.total_budget ELSE @,
          !.min_rating = IF @ = None /\ truthy_number(parser.min_rating)
                         THEN parser.min_rating ELSE @]
  ELSE request

\* request.platforms or [FLIPKART, AMAZON, MEESHO, BLINKIT]
platforms_to_search(request) ==
  IF request.platforms # None /\ request.platforms[1] # <<>>
  THEN request.platforms[1]
  ELSE <<"flipkart", "amazon", "meesho", "blinkit">>

\* SearchService._search_flipkart under its caller's timeout: an exception
\* or a timeout leaves no products
search_flipkart(real) == IF real = "ok" THEN FlipkartResults ELSE <<>>

\* SearchService._search_with_real_scrapers_vercel
search_with_real_scrapers_vercel(platforms, real) ==
  IF \E i \in 1..Len(platforms) : platforms[i] = "flipkart"
  THEN search_flipkart(real) ELSE <<>>

RECURSIVE search_with_real_scrapers(_, _)
\* SearchService._search_with_real_scrapers: one task per Flipkart entry
search_with_real_scrapers(platforms, real) ==
  IF platforms = <<>> THEN <<>>
  ELSE (IF Head(platforms) = "flipkart" THEN search_flipkart(real) ELSE <<>>)
         \o search_with_real_scrapers(Tail(platforms), real)

RECURSIVE mock_scrape(_, _, _)
\* the loop of _search_with_mock_scrapers over platforms
mock_scrape(platforms, query, mock) ==
  IF platforms = <<>> THEN <<>>
  ELSE (IF Head(platforms) \in {"amazon", "meesho", "blinkit"} /\ mock = "ok"
        THEN MockResults(Head(platforms), query) ELSE <<>>)
         \o mock_scrape(Tail(platforms), query, mock)

\* SearchService._search_with_mock_scrapers
search_with_mock_scrapers(request, platforms, settings, mock) ==
  mock_scrape(IF settings.IS_VERCEL THEN Take(platforms, 2) ELSE platforms,
              request.query, mock)

\* SearchService._create_basic_mock_products: reading settings.IS_VERCEL
\* raises when it is not declared, and building the first Product raises
\* because PlatformType, ProductPrice, ProductRating, ProductImage and
\* DeliveryInfo are not imported
create_basic_mock_products(query, platforms, settings) ==
  IF ~settings.declared THEN Raised("AttributeError")
  ELSE LET platforms_to_use ==
             Take(platforms, IF settings.IS_VERCEL THEN 2 ELSE 3)
       IN IF platforms_to_use = <<>> THEN Returned(<<>>)
          ELSE Raised("NameError")

\* if request.max_price:
price_filter_applies(max_price) == truthy_number(max_price)

\* if request.min_rating:
rating_filter_applies(min_rating) == truthy_number(min_rating)

\* the lower-cased categories the requests and the products carry
CategoryInputs == {Milk} \cup QueryInputs

lowered_category == [c \in CategoryInputs |-> lower(c)]

\* p.category and request.category.lower() in p.category.lower()
category_matches(p, category) ==
  /\ truthy_str(p.category)
  /\ Contains(lowered_category[p.category[1]], lowered_category[category])

\* SearchService._apply_filters
apply_filters(products, request) ==
  LET by_price == IF price_filter_applies(request.max_price)
                  THEN SelectSeq(products,
                         LAMBDA p : p.current_price <= request.max_price[1])
                  ELSE products
      by_rating == IF rating_filter_applies(request.min_rating)
                   THEN SelectSeq(by_price,
                          LAMBDA p : /\ p.rating # None
                                     /\ p.rating[1] >= request.min_rating[1])
                   ELSE by_price
  IN IF truthy_str(request.category)
     THEN SelectSeq(by_rating,
            LAMBDA p : category_matches(p, request.category[1]))
     ELSE by_rating

\* the delivery times the products carry
DeliveryInputs == {Days35, Days25, Mins1030}

\* SearchService._parse_delivery_time of each delivery time
delivery_minutes ==
  [d \in DeliveryInputs |->
     LET l == lower(d)
         m == SearchDigits(d)
     IN IF Contains(l, <<"m","i","n">>)
        THEN (IF m # None THEN DigitsValue(m[1]) ELSE Sentinel)
        ELSE IF Contains(l, <<"h","o","u","r">>)
        THEN (IF m # None THEN DigitsValue(m[1]) * MinutesPerHour ELSE Sentinel)
        ELSE IF Contains(l, <<"d","a","y">>)
        THEN (IF m # None THEN DigitsValue(m[1]) * MinutesPerDay ELSE Sentinel)
        ELSE Sentinel]

\* the fields of ProductSearchRequest: hasattr(request, name)
RequestFields ==
  {"query", "platforms", "max_price", "min_rating", "category", "location",
   "latitude", "longitude", "limit"}

\* key = lambda p: p.price.current_price
price_key(p) == <<p.current_price>>

\* key = lambda p: (platform_type != 'quick_commerce', minutes)
delivery_key(p) ==
  <<IF p.platform_type # "quick_commerce" THEN 1 ELSE 0,
    delivery_minutes[p.delivery_time]>>

\* the products in the order they came in
sort_products_unsorted(products, request) == products

\* SearchService._sort_products: by price; the delivery branch needs a
\* delivery_preference attribute on the request
sort_products(products, request) ==
  LET sorted_products ==
        sorted_by(products, [i \in 1..Len(products) |-> price_key(products[i])])
  IN IF "delivery_preference" \in RequestFields
     THEN sorted_by(sorted_products,
            [i \in 1..Len(products) |-> delivery_key(sorted_products[i])])
     ELSE sorted_products

\* ProductSearchResponse(success=True, ...) with the wording of its message
Response(products, total_results, wording) ==
  [success |-> TRUE, products |-> products, total_results |-> total_results,
   message |-> wording]

\* search_products l.60-88: the two tiers as the configuration orders them;
\* mock_products and real_products are None while unassigned
scrape(request, settings, real, mock) ==
  LET platforms == platforms_to_search(request)
      mocked == search_with_mock_scrapers(request, platforms, settings, mock)
      mock_products ==
        IF settings.IS_VERCEL THEN Some(mocked)
        ELSE IF search_with_real_scrapers(platforms, real) = <<>>
                /\ settings.ENABLE_MOCK_FALLBACK
        THEN Some(mocked) ELSE None
      real_products ==
        IF settings.IS_VERCEL
        THEN (IF mocked = <<>>
              THEN Some(search_with_real_scrapers_vercel(platforms, real))
              ELSE None)
        ELSE Some(search_with_real_scrapers(platforms, real))
  IN [mock_products |-> mock_products, real_products |-> real_products,
      all_products |->
        (IF mock_products # None THEN mock_products[1] ELSE <<>>)
          \o (IF real_products # None THEN real_products[1] ELSE <<>>)]

\* the try block of search_products from l.57 on, for the request as parsed
search_body(request, settings, real, mock) ==
  IF ~settings.declared THEN Raised("AttributeError")
  ELSE
  LET found == scrape(request, settings, real, mock)
      basic == IF found.all_products = <<>>
               THEN create_basic_mock_products(request.query,
                      platforms_to_search(request), settings)
               ELSE Returned(<<>>)
  IN IF basic.raised THEN basic
     ELSE
     LET all_products == found.all_products \o basic.value[1]
         filtered_products == apply_filters(all_products, request)
         sorted_products == sort_products(filtered_products, request)
         limited_products == Take(sorted_products, request.limit)
         first == IF settings.IS_VERCEL THEN found.mock_products
                  ELSE found.real_products
         second == IF settings.IS_VERCEL THEN found.real_products
                   ELSE found.mock_products
     IN IF first # None /\ first[1] # <<>>
        THEN Returned(Response(limited_products, Len(limited_products),
                               IF settings.IS_VERCEL THEN "demo" ELSE "live"))
        ELSE IF second = None THEN Raised("UnboundLocalError")
        ELSE IF second[1] # <<>>
        THEN Returned(Response(limited_products, Len(limited_products),
                               IF settings.IS_VERCEL THEN "live" ELSE "demo"))
        ELSE Returned(Response(limited_products, Len(limited_products),
                               "basic demo"))

\* the except handler of search_products: placeholders for Flipkart
search_handler(request, settings) ==
  LET fallback_products ==
        create_basic_mock_products(request.query, <<"flipkart">>, settings)
  IN IF fallback_products.raised THEN fallback_products
     ELSE Returned(Response(Take(fallback_products.value[1], request.limit),
                            Len(fallback_products.value[1]), "search error"))

\* SearchService.search_products: the request as the call leaves it and what
\* the caller gets
search_products(c) ==
  LET request == parsed_request(c.request, c.parser)
      body == search_body(request, c.settings, c.real, c.mock)
  IN [request |-> request,
      result |-> IF body.raised THEN search_handler(request, c.settings)
                 ELSE body]

\* a search is called with any request, configuration and outcomes of the
\* parser and the scrapers
InitSearch ==
  /\ carts = <<>>
  /\ nextId = 1
  /\ now = 0
  /\ call \in [request : RequestInputs, settings : SettingsInputs,
               parser : ParserInputs, real : RealInputs, mock : MockInputs]

\* the call: the request object is left as search_products wrote it
SearchProducts ==
  /\ call' = [call EXCEPT !.request = search_products(call).request]
  /\ UNCHANGED <<carts, nextId, now>>

NextSearch == SearchProducts

\* the search orchestrator over its requests and its collaborators' outcomes
SpecSearch == InitSearch /\ [][NextSearch]_vars

(* ------------------------------ scrapers ------------------------------- *)

\* settings.SCRAPER_DELAY, in seconds
Delay == 1

\* for attempt in range(3)
Attempts == 3

\* int(response.headers.get('Retry-After', 60))
DefaultRetryAfter == 60

\* len(content) > 1000
SmallContent == 1000

\* the user agents a fetch rotates over
UserAgents == 1..4

\* the scraper classes
Scrapers == {"flipkart", "amazon", "blinkit", "meesho", "mock"}

\* the scrapers that fetch with BaseScraper._fetch_page
BaseFetchers == {"flipkart", "amazon", "blinkit"}

\* get_platform_type of a scraper (the mock one stands for Blinkit)
scraper_platform_type(scraper) ==
  IF scraper \in {"blinkit", "mock"} THEN "quick_commerce" ELSE "ecommerce"

\* what one GET can come to: a timeout, a connection error, or a response
\* with its status, the length of its text and its Retry-After header
GetOutcomes ==
  {[kind |-> "timeout", status |-> 0, length |-> 0, retry_after |-> "missing"],
   [kind |-> "error", status |-> 0, length |-> 0, retry_after |-> "missing"]}
    \cup [kind : {"response"}, status : {200}, length : {SmallContent, SmallContent + 1},
          retry_after : {"missing"}]
    \cup [kind : {"response"}, status : {429}, length : {0},
          retry_after : {"missing", "30", "date"}]
    \cup [kind : {"response"}, status : {404, 503}, length : {0},
          retry_after : {"missing"}]

\* int(...) of the Retry-After header: None when int() raises ValueError
retry_after_seconds(header) ==
  IF header = "missing" THEN Some(DefaultRetryAfter)
  ELSE IF header = "30" THEN Some(30)
  ELSE None

\* the response is a page: status 200 and more than 1000 characters
is_page(got) ==
  got.kind = "response" /\ got.status = 200 /\ got.length > SmallContent

\* the seconds slept inside one attempt of BaseScraper._fetch_page, in order
base_sleeps(attempt, got) ==
  (IF attempt > 0 THEN <<Delay * (attempt + 1)>> ELSE <<>>)
    \o (IF got.kind = "response" /\ got.status = 429
           /\ retry_after_seconds(got.retry_after) # None
        THEN <<retry_after_seconds(got.retry_after)[1]>> ELSE <<>>)

\* the seconds slept inside one attempt of MeeshoScraper._fetch_page
meesho_sleeps(attempt, got) ==
  IF got.kind = "response" /\ got.status = 429
     /\ retry_after_seconds(got.retry_after) # None
  THEN <<retry_after_seconds(got.retry_after)[1]>> ELSE <<>>

\* user_agents[attempt % len(user_agents)]
base_user_agent(attempt) == (attempt % Cardinality(UserAgents)) + 1

\* what a scraper reads out of one listing of the page: the name ("" when
\* none is found), the price (None when no number is found), the rating and
\* the link
Listings ==
  [name : {"", "Amul Milk 1L"}, price : {None, Some(0), Some(58)},
   rating : {None, Some(44)}, url : {"/p"}]

\* the pages a parse can meet: up to two listings
ListingSeqs ==
  {<<>>} \cup {<<a>> : a \in Listings} \cup {<<a, b>> : a \in Listings, b \in Listings}

\* a Product as it leaves a scraper
Emitted(name, current_price, platform, platform_type) ==
  [name |-> name, current_price |-> current_price, platform |-> platform,
   platform_type |-> platform_type]

\* a price check that lets every number through
flipkart_no_price_any(price) == price = None

\* FlipkartScraper._parse_product_container: a price of None raises in
\* _extract_prices, a price of 0 returns None
flipkart_no_price(price) == price = None \/ price[1] = 0

\* FlipkartScraper._parse_product_container: None for a listing without a
\* name, a price or a link, and for a rated one (ProductRating is built
\* without its required total_reviews and the ValidationError is caught)
flipkart_parse_product_container(l) ==
  IF l.name = "" \/ flipkart_no_price(l.price) \/ l.url = "" \/ truthy_number(l.rating)
  THEN None
  ELSE Some(Emitted(l.name, l.price[1], "flipkart", "ecommerce"))

\* AmazonScraper / BlinkitScraper._parse_product_container: Product is built
\* without platform and platform_type, the ValidationError is caught
amazon_parse_product_container(l) == None

\* MeeshoScraper.parse_search_results, one card: Product is built with
\* platform_product_id=None, the ValidationError is caught
meesho_parse_card(l) == None

\* MockScraper.parse_search_results for Blinkit: the page is not read
MockProducts ==
  <<Emitted("Amul Full Cream Milk 1L", 58, "blinkit", "quick_commerce"),
    Emitted("Britannia Brown Bread", 35, "blinkit", "quick_commerce"),
    Emitted("Nestle Maggi Noodles", 14, "blinkit", "quick_commerce"),
    Emitted("Coca Cola 2L Bottle", 95, "blinkit", "quick_commerce"),
    Emitted("Lay's Classic Chips", 20, "blinkit", "quick_commerce")>>

\* AmazonScraper._get_mock_products for a query without "gaming", "budget"
\* or "cheap"
AmazonMockProducts ==
  <<Emitted("Dell Inspiron 15 3000 Laptop", 45000, "amazon", "ecommerce"),
    Emitted("HP Pavilion 15 Gaming Laptop", 48000, "amazon", "ecommerce"),
    Emitted("Lenovo IdeaPad 3 Laptop", 42000, "amazon", "ecommerce"),
    Emitted("ASUS VivoBook 15 Laptop", 46000, "amazon", "ecommerce"),
    Emitted("Acer Aspire 5 Laptop", 44000, "amazon", "ecommerce")>>

RECURSIVE parse_search_results(_, _)
\* parse_search_results of a scraper: the products of the listings it keeps
parse_search_results(scraper, listings) ==
  IF scraper = "mock" THEN MockProducts
  ELSE IF listings = <<>> THEN <<>>
  ELSE LET product == IF scraper = "flipkart"
                      THEN flipkart_parse_product_container(Head(listings))
                      ELSE IF scraper = "meesho" THEN meesho_parse_card(Head(listings))
                      ELSE amazon_parse_product_container(Head(listings))
       IN (IF product # None THEN <<product[1]>> ELSE <<>>)
            \o parse_search_results(scraper, Tail(listings))

\* search_products of a scraper when the page is absent or something threw:
\* [] in BaseScraper, the built-in products in AmazonScraper
scraper_failed(scraper, limit) ==
  IF scraper = "amazon" THEN Take(AmazonMockProducts, limit) ELSE <<>>

\* search_products of a scraper once the page is there: parse, cut to limit,
\* stamp platform and platform_type
scraper_parsed(scraper, listings, limit) ==
  LET products == Take(parse_search_results(scraper, listings), limit)
  IN [i \in 1..Len(products) |->
        [products[i] EXCEPT !.platform = IF scraper = "mock" THEN "blinkit" ELSE scraper,
                            !.platform_type = scraper_platform_type(scraper)]]

\* a scraper is about to search: the session may not have been opened; seen
\* keeps the status (0 without a response) and the Retry-After header of
\* each GET so far
InitScraper ==
  /\ carts = <<>>
  /\ nextId = 1
  /\ now = 0
  /\ \E s \in Scrapers, l \in 1..MaxLimit, open \in BOOLEAN :
       call = [scraper |-> s, limit |-> l, session |-> open, pc |-> "fetch",
               attempt |-> 0, gets |-> 0, slept |-> <<>>, agents |-> <<>>,
               seen |-> <<>>, html |-> FALSE, threw |-> FALSE, dropped |-> FALSE,
               products |-> <<>>]

\* _fetch_page without a session raises RuntimeError; search_products
\* catches it
FetchWithoutSession ==
  /\ call.pc = "fetch"
  /\ call.scraper # "mock"
  /\ ~call.session
  /\ call' = [call EXCEPT !.pc = "done", !.threw = TRUE,
                          !.products = scraper_failed(call.scraper, call.limit)]
  /\ UNCHANGED <<carts, nextId, now>>

\* MockScraper._fetch_page: a short page, no GET
FetchMock ==
  /\ call.pc = "fetch"
  /\ call.scraper = "mock"
  /\ call' = [call EXCEPT !.pc = "parse", !.html = TRUE]
  /\ UNCHANGED <<carts, nextId, now>>

\* one pass of the loop of _fetch_page: the GET comes to got under the user
\* agent the pass sets (MeeshoScraper picks it at random)
FetchAttempt(got, choice) ==
  /\ call.pc = "fetch"
  /\ call.scraper # "mock"
  /\ call.session
  /\ call.attempt < Attempts
  /\ call.scraper \in BaseFetchers => choice = base_user_agent(call.attempt)
  /\ call' = [call EXCEPT
       !.attempt = @ + 1,
       !.gets = @ + 1,
       !.agents = Append(@, choice),
       !.seen = Append(@, [status |-> got.status, retry_after |-> got.retry_after]),
       !.slept = @ \o (IF call.scraper \in BaseFetchers
                       THEN base_sleeps(call.attempt, got)
                       ELSE meesho_sleeps(call.attempt, got)),
       !.html = is_page(got),
       !.pc = IF is_page(got) \/ call.attempt + 1 = Attempts THEN "parse" ELSE "fetch"]
  /\ UNCHANGED <<carts, nextId, now>>

\* search_products after _fetch_page: [] (or AmazonScraper's own products)
\* without a page
SearchWithoutPage ==
  /\ call.pc = "parse"
  /\ ~call.html
  /\ call' = [call EXCEPT !.pc = "done",
                          !.products = scraper_failed(call.scraper, call.limit)]
  /\ UNCHANGED <<carts, nextId, now>>

\* search_products after _fetch_page when parse_search_results throws
SearchParseThrows ==
  /\ call.pc = "parse"
  /\ call.html
  /\ call' = [call EXCEPT !.pc = "done", !.threw = TRUE,
                          !.products = scraper_failed(call.scraper, call.limit)]
  /\ UNCHANGED <<carts, nextId, now>>

\* search_products after _fetch_page when the page holds listings
SearchParsed(listings) ==
  /\ call.pc = "parse"
  /\ call.html
  /\ call' = [call EXCEPT
       !.pc = "done",
       !.dropped = \E i \in 1..Len(listings) :
                     listings[i].name = "" \/ ~truthy_number(listings[i].price),
       !.products = scraper_parsed(call.scraper, listings, call.limit)]
  /\ UNCHANGED <<carts, nextId, now>>

NextScraper ==
  \/ FetchWithoutSession
  \/ FetchMock
  \/ \E got \in GetOutcomes, choice \in UserAgents : FetchAttempt(got, choice)
  \/ SearchWithoutPage
  \/ SearchParseThrows
  \/ \E listings \in ListingSeqs : SearchParsed(listings)

\* one search of one scraper, from the fetch of the page to the products
SpecScraper == InitScraper /\ [][NextScraper]_vars

(* --------------------- concurrent cart requests ------------------------ *)

\* the most requests in flight at once
MaxProcs == 2

Procs == 1..MaxProcs

\* the carts the store holds when the requests arrive: cart 1 and cart 2,
\* one item each
StoredCarts ==
  <<[id |-> 1,
     items |-> <<[id |-> 3, product |-> CHOOSE p \in Products : p.platform_product_id = "a",
                  quantity |-> 2, selected_platform |-> "blinkit"]>>,
     updated_at |-> 0],
    [id |-> 2,
     items |-> <<[id |-> 4, product |-> CHOOSE p \in Products : p.platform_product_id = "b",
                  quantity |-> 2, selected_platform |-> "amazon"]>>,
     updated_at |-> 0]>>

\* a cart id that is not in the store
MissingCart == 3

\* the first id uuid4 gives to a new item: an id no stored item has
FreshId == 5

\* the requests: a get or a mutation, addressed to a stored cart or to the
\* missing one, to the stored item of the cart or to no item
RequestOps ==
  [kind : {"add"}, cart_id : {1, 2, MissingCart},
   product : {p \in Products : p.platform_product_id \in {"a", "c"}},
   item_id : {NoSuchId}, quantity : {2}]
    \cup [kind : {"remove"}, cart_id : {1, 2, MissingCart},
          product : {CHOOSE p \in Products : p.platform_product_id = "a"},
          item_id : {NoSuchId, 3, 4}, quantity : {0}]
    \cup [kind : {"update"}, cart_id : {1, 2, MissingCart},
          product : {CHOOSE p \in Products : p.platform_product_id = "a"},
          item_id : {3, 4}, quantity : {3}]
    \cup [kind : {"clear", "get"}, cart_id : {1, 2, MissingCart},
          product : {CHOOSE p \in Products : p.platform_product_id = "a"},
          item_id : {NoSuchId}, quantity : {0}]

\* the mutation of a request applied to a Cart object at time t, the new
\* item taking the id item_id: the cart after it and whether it succeeded
\* (CartItem validation raises for a quantity below 1)
mutate(cart, op, item_id, t) ==
  IF op.kind = "add"
  THEN (IF CartItemValid(op.quantity)
        THEN [cart |-> add_item(cart, [id |-> item_id, product |-> op.product,
                                       quantity |-> op.quantity,
                                       selected_platform |-> op.product.platform], t),
              ret |-> TRUE]
        ELSE [cart |-> cart, ret |-> FALSE])
  ELSE IF op.kind = "remove" THEN remove_item(cart, op.item_id, t)
  ELSE IF op.kind = "update" THEN update_quantity(cart, op.item_id, op.quantity, t)
  ELSE [cart |-> clear(cart, t), ret |-> TRUE]

\* update_one that leaves the collection as it was
update_one_nothing(store, cart_id, cart) == store

\* update_one that sets the fields in every document
update_one_every(store, cart_id, cart) ==
  [d \in DOMAIN store |->
     [store[d] EXCEPT !.items = cart.items, !.updated_at = cart.updated_at]]

\* cart_collection.update_one({"id": cart_id}, {"$set": {"items": ...,
\* "updated_at": ...}})
update_one(store, cart_id, cart) ==
  [d \in DOMAIN store |->
     IF store[d].id = cart_id
     THEN [store[d] EXCEPT !.items = cart.items, !.updated_at = cart.updated_at]
     ELSE store[d]]

\* what a request that acts on no cart returns: None from get_cart, False
\* from a mutation
nothing_done(op) == IF op.kind = "get" THEN "None" ELSE "False"

\* what a request that went through returns
done(op) == IF op.kind = "get" THEN "Cart" ELSE "True"

\* the requests arrive: the service runs on the dict or on the collection
InitStore ==
  /\ carts = StoredCarts
  /\ nextId = FreshId
  /\ now = 0
  /\ \E mongo \in BOOLEAN, ops \in [Procs -> RequestOps] :
       call = [use_mongodb |-> mongo,
               procs |-> [p \in Procs |->
                            [op |-> ops[p], pc |-> "start", cart |-> None,
                             ret |-> "", fault |-> FALSE]]]

\* a request on the dict: get_cart and the write have no suspension point
\* between them, the request runs in one piece
MemoryRequest(p) ==
  LET op == call.procs[p].op
      r == IF op.kind = "add"
           THEN add_item_to_cart(op.cart_id, op.product, op.quantity, None)
           ELSE IF op.kind = "remove" THEN remove_item_from_cart(op.cart_id, op.item_id)
           ELSE IF op.kind = "update"
           THEN update_item_quantity(op.cart_id, op.item_id, op.quantity)
           ELSE IF op.kind = "clear" THEN clear_cart(op.cart_id)
           ELSE Outcome(carts, nextId, get_cart(op.cart_id) # None)
  IN /\ ~call.use_mongodb
     /\ call.procs[p].pc = "start"
     /\ carts' = r.carts
     /\ nextId' = r.nextId
     /\ call' = [call EXCEPT !.procs[p].pc = "done",
                             !.procs[p].ret = IF r.ret THEN done(op) ELSE nothing_done(op)]
     /\ UNCHANGED now

\* a request on the collection up to its update_one: find_one (which may
\* raise; get_cart then returns None) and the change of the Cart object
\* built from the document
MongoRead(p, fault) ==
  LET op == call.procs[p].op
      found == ~fault /\ op.cart_id \in DOMAIN carts
      m == mutate(carts[op.cart_id], op, nextId, now)
  IN /\ call.use_mongodb
     /\ call.procs[p].pc = "start"
     /\ call' = [call EXCEPT
          !.procs[p].fault = fault,
          !.procs[p].pc = IF found /\ op.kind # "get" /\ m.ret THEN "write" ELSE "done",
          !.procs[p].cart = IF found /\ op.kind # "get" /\ m.ret THEN Some(m.cart) ELSE None,
          !.procs[p].ret = IF ~found THEN nothing_done(op)
                           ELSE IF op.kind = "get" THEN done(op)
                           ELSE IF m.ret THEN "" ELSE nothing_done(op)]
     /\ nextId' = IF found /\ op.kind = "add" THEN nextId + 1 ELSE nextId
     /\ UNCHANGED <<carts, now>>

\* the update_one of a request on the collection: it writes the item list
\* of the Cart object, or raises and the method returns False
MongoWrite(p, fault) ==
  LET op == call.procs[p].op
  IN /\ call.use_mongodb
     /\ call.procs[p].pc = "write"
     /\ carts' = IF fault THEN carts
                 ELSE update_one(carts, op.cart_id, call.procs[p].cart[1])
     /\ call' = [call EXCEPT !.procs[p].pc = "done",
                             !.procs[p].fault = fault,
                             !.procs[p].ret = IF fault THEN nothing_done(op) ELSE done(op)]
     /\ UNCHANGED <<nextId, now>>

NextStore ==
  \/ \E p \in Procs : MemoryRequest(p)
  \/ \E p \in Procs, fault \in BOOLEAN : MongoRead(p, fault)
  \/ \E p \in Procs, fault \in BOOLEAN : MongoWrite(p, fault)

\* concurrent requests against the store, interleaved at their awaits
SpecStore == InitStore /\ [][NextStore]_vars

(* ------------------------- delivery of a cart -------------------------- *)

\* the most items of the cart whose delivery is computed
MaxTimed == 3

\* the store holds one cart of up to MaxTimed listings, no listing twice
InitDelivery ==
  \E n \in 1..MaxTimed :
    \E ps \in [1..n -> TimedProducts] :
      /\ \A i, j \in 1..n : i # j => ps[i] # ps[j]
      /\ carts = <<[id |-> 1,
                    items |-> [i \in 1..n |->
                                 [id |-> i + 1, product |-> ps[i], quantity |-> 1,
                                  selected_platform |-> ps[i].platform]],
                    updated_at |-> 0]>>
      /\ nextId = n + 2
      /\ now = 0
      /\ call = NoCall

\* the optimizer applied to every cart of up to MaxTimed listings with their
\* delivery times
SpecDelivery == InitDelivery /\ [][NextOptimize]_vars

(* ------------------------------- claims -------------------------------- *)

\* the positions of a cart's item list
Idx(items) == 1..Len(items)

\* the items of every stored cart
AllItemIds == UNION {{carts[c].items[i].id : i \in Idx(carts[c].items)} : c \in DOMAIN carts}

\* C1: in every reachable state no two items of one cart have the same
\* (product.platform_product_id, selected_platform) pair.
C1_NoDuplicatePair ==
  \A c \in DOMAIN carts :
    \A i, j \in Idx(carts[c].items) :
      i # j =>
        \/ carts[c].items[i].product.platform_product_id
             # carts[c].items[j].product.platform_product_id
        \/ carts[c].items[i].selected_platform # carts[c].items[j].selected_platform

\* a cart holds one product on two platforms, and the second of the two items
\* has taken in a later add of the same pair (a quantity above 3 only arises
\* from merging)
C1_Witness ==
  \E c \in DOMAIN carts :
    /\ Len(carts[c].items) = 2
    /\ carts[c].items[1].product.platform_product_id
         = carts[c].items[2].product.platform_product_id
    /\ carts[c].items[2].quantity > 3

\* what C2 says of the outcome r of adding q of product p on platform s to cart c
AddItemPost(r, c, p, q, s) ==
  LET plat == IF s = None THEN p.platform ELSE s[1]
      old == carts[c].items
      new == r.carts[c].items
      same == {i \in Idx(old) :
                 /\ old[i].product.platform_product_id = p.platform_product_id
                 /\ old[i].selected_platform = plat}
  IN /\ r.ret
     /\ IF same # {}
        THEN /\ Len(new) = Len(old)
             /\ \E k \in same :
                  /\ new[k] = [old[k] EXCEPT !.quantity = old[k].quantity + q]
                  /\ \A i \in Idx(old) \ {k} : new[i] = old[i]
        ELSE /\ Len(new) = Len(old) + 1
             /\ new[Len(new)].quantity = q
             /\ new[Len(new)].product = p
             /\ new[Len(new)].selected_platform = plat
             /\ new[Len(new)].id \notin AllItemIds
             /\ \A i \in Idx(old) : new[i] = old[i]

\* C2: an add with q >= 1 to an existing cart resolves the platform to the
\* given one or else to product.platform; a matching item grows by exactly q
\* and keeps its id and the item count stays; otherwise one item of quantity q
\* with an unused id is appended at the end; every other item is unchanged.
C2_AddItem ==
  \A c \in DOMAIN carts, p \in Products, q \in QuantityInputs, s \in PlatformInputs :
    q >= 1 => AddItemPost(add_item_to_cart(c, p, q, s), c, p, q, s)

\* adding 2 then 3 of one product has left one item of quantity 5, next to
\* another item, and one more add of a third product appends at the end
C2_Witness ==
  \E c \in DOMAIN carts :
    /\ Len(carts[c].items) = 2
    /\ carts[c].items[1].quantity = 5
    /\ carts[c].items[1].product.platform_product_id
         # carts[c].items[2].product.platform_product_id
    /\ \E p \in Products :
         Len(add_item_to_cart(c, p, 2, None).carts[c].items) = 3

\* every item of every stored cart has quantity >= 1
QuantityAtLeastOne ==
  \A c \in DOMAIN carts : \A i \in Idx(carts[c].items) : carts[c].items[i].quantity >= 1

\* C3: after any sequence of operations every stored item has quantity >= 1;
\* an add with quantity <= 0 is rejected and changes no cart; an update with
\* qty <= 0 of an item in the cart removes the item instead of storing qty.
C3_QuantityPositive ==
  /\ QuantityAtLeastOne
  /\ \A c \in CartIdInputs, p \in Products, q \in QuantityInputs, s \in PlatformInputs :
       q <= 0 =>
         LET r == add_item_to_cart(c, p, q, s)
         IN r.carts = carts /\ ~r.ret
  /\ \A c \in DOMAIN carts, i \in ItemIdInputs, q \in QuantityInputs :
       q <= 0 =>
         LET r == update_item_quantity(c, i, q)
         IN \A k \in Idx(r.carts[c].items) : r.carts[c].items[k].id # i

\* a cart holds an item that an update to quantity 0 takes out of the cart,
\* and an add of quantity 0 to that cart is refused
C3_Witness ==
  \E c \in DOMAIN carts :
    /\ \E k \in Idx(carts[c].items) :
         LET r == update_item_quantity(c, carts[c].items[k].id, 0)
         IN r.ret /\ Len(r.carts[c].items) = Len(carts[c].items) - 1
    /\ \E p \in Products : ~add_item_to_cart(c, p, 0, None).ret

\* what C4 says of the outcome r of updating item i of cart c to quantity q
UpdatePost(r, c, i, q) ==
  LET present == c \in DOMAIN carts /\ \E k \in Idx(carts[c].items) : carts[c].items[k].id = i
  IN IF present /\ q <= 0
     THEN /\ r.ret
          /\ r.carts[c].items = SelectSeq(carts[c].items, LAMBDA it : it.id # i)
     ELSE IF present
     THEN /\ r.ret
          /\ Len(r.carts[c].items) = Len(carts[c].items)
          /\ \A k \in Idx(carts[c].items) :
               r.carts[c].items[k] =
                 IF carts[c].items[k].id = i
                 THEN [carts[c].items[k] EXCEPT !.quantity = q]
                 ELSE carts[c].items[k]
     ELSE /\ ~r.ret
          /\ r.carts = carts

\* C4: an update of an item in the cart with qty <= 0 removes it and returns
\* true; with qty > 0 it sets the quantity to qty and returns true; for an
\* unknown item or cart it returns false and changes nothing; all other items
\* keep their quantity and order.
C4_UpdateQuantity ==
  \A c \in CartIdInputs, i \in ItemIdInputs, q \in QuantityInputs :
    UpdatePost(update_item_quantity(c, i, q), c, i, q)

\* a cart holds two items; an update of the first to another quantity reports
\* true and leaves two items, and an update of an unknown item reports false
C4_Witness ==
  \E c \in DOMAIN carts :
    /\ Len(carts[c].items) = 2
    /\ \E q \in QuantityInputs :
         LET r == update_item_quantity(c, carts[c].items[1].id, q)
         IN /\ q # carts[c].items[1].quantity
            /\ r.ret
            /\ Len(r.carts[c].items) = 2
            /\ r.carts[c].items[1].quantity = q
    /\ ~update_item_quantity(c, NoSuchId, 2).ret

\* the outcomes of the remove, update-quantity and clear calls addressed to
\* cart c
OtherMutationsOf(c) ==
  {remove_item_from_cart(c, i) : i \in ItemIdInputs}
    \cup {update_item_quantity(c, i[1], i[2]) : i \in ItemIdInputs \X QuantityInputs}
    \cup {clear_cart(c)}

\* the outcomes of the adds of quantities in Q addressed to cart c
AddsOf(c, Q) ==
  {add_item_to_cart(c, a[1], a[2], a[3]) : a \in Products \X Q \X PlatformInputs}

\* C5 as stated: every add, remove, update-quantity and clear applied to an
\* existing cart leaves updated_at not older than the time of the call (taken
\* here for the adds that pass validation only).
C5_AlwaysRestamped ==
  \A c \in DOMAIN carts :
    \A r \in AddsOf(c, {q \in QuantityInputs : q >= 1}) \cup OtherMutationsOf(c) :
      r.carts[c].updated_at >= now

\* C5 amended: such a call that reports success stamps updated_at with the
\* time of the call, and one that reports failure (an add with quantity <= 0,
\* a remove or update of an item id not in the cart) leaves the cart with its
\* updated_at as it was.
C5_RestampedOnSuccess ==
  \A c \in DOMAIN carts :
    \A r \in AddsOf(c, QuantityInputs) \cup OtherMutationsOf(c) :
      IF r.ret THEN r.carts[c].updated_at = now ELSE r.carts[c] = carts[c]

\* the clock has advanced since a cart with an item was last stamped; a remove
\* of that item stamps the cart with the present time, and a remove of an
\* unknown item leaves the old stamp
C5_Witness ==
  \E c \in DOMAIN carts :
    /\ carts[c].updated_at < now
    /\ carts[c].items # <<>>
    /\ LET r == remove_item_from_cart(c, carts[c].items[1].id)
       IN r.ret /\ r.carts[c].updated_at = now
    /\ LET r == remove_item_from_cart(c, NoSuchId)
       IN ~r.ret /\ r.carts[c].updated_at < now

RECURSIVE SetSum(_, _)
\* the sum of v[x] over the x in S
SetSum(S, v) ==
  IF S = {} THEN 0
  ELSE LET x == CHOOSE y \in S : TRUE IN v[x] + SetSum(S \ {x}, v)

\* C6: for every stored cart total_items is the sum of the quantities,
\* total_price the sum of current_price x quantity, total_original_price the
\* sum of original_price x quantity with an item that has no original price
\* counted at its total_price, total_savings their difference, and
\* total_savings >= 0 when no item has an original_price below its
\* current_price.
C6_Aggregates ==
  \A c \in DOMAIN carts :
    LET its == carts[c].items
        price(i) == its[i].product.current_price
        orig(i) == its[i].product.original_price
    IN /\ total_items(carts[c]) = SetSum(Idx(its), [i \in Idx(its) |-> its[i].quantity])
       /\ total_price(carts[c])
            = SetSum(Idx(its), [i \in Idx(its) |-> price(i) * its[i].quantity])
       /\ total_original_price(carts[c])
            = SetSum(Idx(its), [i \in Idx(its) |->
                IF orig(i) = None THEN price(i) * its[i].quantity
                ELSE orig(i)[1] * its[i].quantity])
       /\ total_savings(carts[c]) = total_original_price(carts[c]) - total_price(carts[c])
       /\ (\A i \in Idx(its) : orig(i) # None => orig(i)[1] >= price(i))
            => total_savings(carts[c]) >= 0

\* a cart of two items, one of them without an original price, that saves money
C6_Witness ==
  \E c \in DOMAIN carts :
    /\ Len(carts[c].items) = 2
    /\ \E i \in Idx(carts[c].items) : carts[c].items[i].product.original_price = None
    /\ total_savings(carts[c]) > 0

\* C7: for a non-empty cart fastest_delivery is the delivery time of an item
\* whose delivery time in minutes is the smallest of the cart; for an empty
\* cart it is "N/A".
C7_FastestDelivery ==
  \A c \in DOMAIN carts :
    LET its == carts[c].items
    IN IF its = <<>> THEN fastest_delivery(carts[c]) = NA
       ELSE \E i \in Idx(its) :
              /\ fastest_delivery(carts[c]) = its[i].product.delivery_time
              /\ \A j \in Idx(its) : item_minutes(its[i]) <= item_minutes(its[j])

NamesOf(items) == {LoweredName[items[i].product.name] : i \in Idx(items)}

\* the positions of the items of a list that carry the lower-cased name n
Named(items, n) == {i \in Idx(items) : LoweredName[items[i].product.name] = n}

\* C9: in best_price mode the result holds exactly one item per distinct
\* lower-cased product name of the cart and nothing else, and the kept item of
\* a name is a cart item of that name with the smallest current_price x
\* quantity.
C9_BestPrice ==
  \A c \in DOMAIN carts, f \in BOOLEAN :
    carts[c].items # <<>> =>
      LET its == carts[c].items
          kept == optimize_cart(c, "best_price", f).ret[1].cart_items
      IN /\ NamesOf(kept) = NamesOf(its)
         /\ \A n \in NamesOf(its) : Cardinality(Named(kept, n)) = 1
         /\ \A k \in Idx(kept) :
              /\ \E i \in Idx(its) : its[i] = kept[k]
              /\ \A i \in Named(its, LoweredName[kept[k].product.name]) :
                   kept[k].product.current_price * kept[k].quantity
                     <= its[i].product.current_price * its[i].quantity

\* a cart holds the same product name at 500 and at 300 on two platforms in
\* equal quantities, and best_price keeps the item at 300 alone
C9_Witness ==
  \E c \in DOMAIN carts :
    /\ Len(carts[c].items) = 2
    /\ carts[c].items[1].product.current_price = 500
    /\ carts[c].items[2].product.current_price = 300
    /\ carts[c].items[1].quantity = carts[c].items[2].quantity
    /\ carts[c].items[1].selected_platform # carts[c].items[2].selected_platform
    /\ LoweredName[carts[c].items[1].product.name]
         = LoweredName[carts[c].items[2].product.name]
    /\ optimize_cart(c, "best_price", FALSE).ret[1].cart_items = <<carts[c].items[2]>>

\* C10: in fastest_delivery mode the result holds exactly one item per distinct
\* lower-cased product name of the cart, and the kept item of a name is the
\* earliest-inserted cart item of that name with the smallest parsed delivery
\* minutes.
C10_FastestDelivery ==
  \A c \in DOMAIN carts, f \in BOOLEAN :
    carts[c].items # <<>> =>
      LET its == carts[c].items
          kept == optimize_cart(c, "fastest_delivery", f).ret[1].cart_items
      IN /\ NamesOf(kept) = NamesOf(its)
         /\ \A n \in NamesOf(its) : Cardinality(Named(kept, n)) = 1
         /\ \A k \in Idx(kept) :
              \E i \in Named(its, LoweredName[kept[k].product.name]) :
                /\ its[i] = kept[k]
                /\ \A j \in Named(its, LoweredName[kept[k].product.name]) :
                     /\ item_minutes(its[i]) <= item_minutes(its[j])
                     /\ j < i => item_minutes(its[i]) < item_minutes(its[j])

\* a cart holds two items of one name and one delivery time, and
\* fastest_delivery keeps the first of them alone
C10_Witness ==
  \E c \in DOMAIN carts :
    /\ Len(carts[c].items) = 2
    /\ LoweredName[carts[c].items[1].product.name]
         = LoweredName[carts[c].items[2].product.name]
    /\ item_minutes(carts[c].items[1]) = item_minutes(carts[c].items[2])
    /\ optimize_cart(c, "fastest_delivery", FALSE).ret[1].cart_items = <<carts[c].items[1]>>

\* the positions of the items of a list selected on platform p
OnPlatform(items, p) == {i \in Idx(items) : items[i].selected_platform = p}

\* the smallest element of a non-empty set of numbers
Least(S) == CHOOSE x \in S : \A y \in S : x <= y

\* C11: in minimum_platforms mode the result is exactly the cart's items of one
\* platform P, in cart order; P has at least as many items as every other
\* platform of the cart, and among the platforms with as many items P is the
\* one whose first item was inserted earliest.
C11_MinimumPlatforms ==
  \A c \in DOMAIN carts, f \in BOOLEAN :
    carts[c].items # <<>> =>
      LET its == carts[c].items
          kept == optimize_cart(c, "minimum_platforms", f).ret[1].cart_items
          P == kept[1].selected_platform
      IN /\ kept = SelectSeq(its, LAMBDA it : it.selected_platform = P)
         /\ \A i \in Idx(its) :
              LET Q == its[i].selected_platform
              IN /\ Cardinality(OnPlatform(its, P)) >= Cardinality(OnPlatform(its, Q))
                 /\ Cardinality(OnPlatform(its, P)) = Cardinality(OnPlatform(its, Q))
                      => Least(OnPlatform(its, P)) <= Least(OnPlatform(its, Q))

\* a cart holds one item on one platform and, after it, three on another, and
\* minimum_platforms keeps exactly the three
C11_Witness ==
  \E c \in DOMAIN carts :
    LET its == carts[c].items
    IN /\ Len(its) = 4
       /\ its[2].selected_platform # its[1].selected_platform
       /\ its[3].selected_platform = its[2].selected_platform
       /\ its[4].selected_platform = its[2].selected_platform
       /\ optimize_cart(c, "minimum_platforms", FALSE).ret[1].cart_items
            = <<its[2], its[3], its[4]>>

C13_OptimizeFrame ==
  \A c \in CartIdInputs, m \in Modes, f \in BOOLEAN :
    LET r == optimize_cart(c, m, f)
    IN /\ DOMAIN r.carts = DOMAIN carts
       /\ \A d \in DOMAIN carts :
            /\ r.carts[d].items = carts[d].items
            /\ r.carts[d].updated_at = carts[d].updated_at
       /\ r.nextId = nextId

\* the clock has advanced since a cart of two items was stamped, and an
\* optimization that keeps one of the two leaves both in the store
C13_Witness ==
  \E c \in DOMAIN carts :
    LET r == optimize_cart(c, "best_price", FALSE)
    IN /\ carts[c].updated_at < now
       /\ Len(carts[c].items) = 2
       /\ r.ret # None
       /\ Len(r.ret[1].cart_items) = 1
       /\ Len(r.carts[c].items) = 2

\* what the caller of search_products gets in the current call
SearchResult == search_products(call).result

\* the request the filters, the sort and the cut read in the current call
SearchRequest == search_products(call).request

\* the response of the current call, when it returns one
SearchResponse == SearchResult.value[1]

\* C14: with IS_VERCEL and ENABLE_MOCK_FALLBACK set either way, for every
\* request and every outcome of the parser, the Flipkart scraper and the mock
\* scrapers, search_products raises nothing and returns a response with
\* success = true.
C14_AlwaysResponds ==
  call.settings.declared =>
    /\ ~SearchResult.raised
    /\ SearchResponse.success

\* C15: the product list of a response of search_products is never empty.
C15_NeverEmpty ==
  ~SearchResult.raised => SearchResponse.products # <<>>

\* the products of a list that the real scraper supplied
FromReal(products) ==
  \A i \in 1..Len(products) :
    \E j \in 1..Len(FlipkartResults) : products[i] = FlipkartResults[j]

\* the products of a list that a mock scraper supplied for the query
FromMock(products) ==
  \A i \in 1..Len(products) :
    \E p \in {"amazon", "meesho", "blinkit"} :
      products[i] = MockResults(p, call.request.query)[1]

\* C16: when the real scraper times out, fails or finds nothing, the call
\* still returns a non-empty product list under a message that is not the
\* live one; and whenever a response is returned, live wording goes with
\* products of the real scraper only, demo wording with products of the mock
\* scrapers only, and basic-demo wording with neither.
C16_MessageNamesTier ==
  /\ (call.settings.declared /\ call.real # "ok") =>
       /\ ~SearchResult.raised
       /\ SearchResponse.products # <<>>
       /\ SearchResponse.message # "live"
  /\ ~SearchResult.raised =>
       /\ SearchResponse.message = "live" => FromReal(SearchResponse.products)
       /\ SearchResponse.message = "demo" => FromMock(SearchResponse.products)
       /\ SearchResponse.message = "basic demo" =>
            \A i \in 1..Len(SearchResponse.products) :
              /\ ~FromReal(<<SearchResponse.products[i]>>)
              /\ ~FromMock(<<SearchResponse.products[i]>>)

\* C17: every product of a response meets every filter the request carries:
\* price <= max_price for any max_price, 0 included; rated, and rated >=
\* min_rating, for any min_rating in [0, 5]; category containing the
\* requested one, whatever the case.
C17_FiltersHold ==
  ~SearchResult.raised =>
    \A i \in 1..Len(SearchResponse.products) :
      LET p == SearchResponse.products[i]
      IN /\ call.request.max_price # None =>
              p.current_price <= call.request.max_price[1]
         /\ call.request.min_rating # None =>
              /\ p.rating # None
              /\ p.rating[1] >= call.request.min_rating[1]
         /\ call.request.category # None =>
              /\ p.category # None
              /\ Contains(lower(p.category[1]), lower(call.request.category[1]))

\* C18: for the query "laptop under 50000" sent without max_price, with the
\* parser's budget at 50000, every product of the response costs at most
\* 50000.
C18_BudgetFromQuery ==
  (/\ call.request.query = Laptop
   /\ call.request.max_price = None
   /\ call.parser.kind = "ok"
   /\ call.parser.total_budget = Some(50000)
   /\ ~SearchResult.raised) =>
    \A i \in 1..Len(SearchResponse.products) :
      SearchResponse.products[i].current_price <= 50000

\* a delivery preference of "fast" is set for the current call: the parser
\* is consulted and finds it (the request has no field for the caller's)
FastPreferred ==
  /\ NaturalQuery[call.request.query]
  /\ call.parser.kind = "ok"
  /\ call.parser.delivery_preference = Some("fast")

\* the merged list of the current call after the filters
FilteredMerged ==
  apply_filters(scrape(SearchRequest, call.settings, call.real, call.mock).all_products,
                SearchRequest)

\* the positions in xs at which x stands
PositionsOf(x, xs) == {i \in 1..Len(xs) : xs[i] = x}

\* C19: with no delivery preference the products of a response are the
\* filtered merged list in ascending order of price, equal prices in merge
\* order, cut to the first limit: prices never decrease along the list, at
\* most limit products are there, each is a filtered product, none is left
\* out while there is room, and one left out is neither cheaper than a
\* returned one nor ahead of a returned one of its price in the merge.
C19_SortedAndCut ==
  (~FastPreferred /\ ~SearchResult.raised) =>
    LET P == SearchResponse.products
        F == FilteredMerged
        kept == UNION {PositionsOf(P[i], F) : i \in 1..Len(P)}
    IN /\ \A i \in 1..(Len(P) - 1) : P[i].current_price <= P[i + 1].current_price
       /\ Len(P) <= SearchRequest.limit
       /\ Len(P) = (IF Len(F) < SearchRequest.limit THEN Len(F)
                    ELSE SearchRequest.limit)
       /\ \A i \in 1..Len(P) : PositionsOf(P[i], F) # {}
       /\ \A i, j \in 1..Len(P) :
            (i < j /\ P[i].current_price = P[j].current_price) =>
              \A a \in PositionsOf(P[i], F), b \in PositionsOf(P[j], F) : a < b
       /\ \A o \in (1..Len(F)) \ kept, k \in kept :
            /\ F[o].current_price >= F[k].current_price
            /\ F[o].current_price = F[k].current_price => k < o

\* a response whose list was re-ordered and cut: more filtered products than
\* the limit, the first returned one not the first of the merge, and a
\* product left out at the price of one returned
C19_Witness ==
  /\ ~FastPreferred
  /\ ~SearchResult.raised
  /\ Len(FilteredMerged) > Len(SearchResponse.products)
  /\ Len(SearchResponse.products) = 2
  /\ SearchResponse.products[1] # FilteredMerged[1]
  /\ \E o \in 1..Len(FilteredMerged) :
       /\ FilteredMerged[o].current_price = SearchResponse.products[2].current_price
       /\ FilteredMerged[o] # SearchResponse.products[2]

C21_FaultsGiveNothing ==
  (call.pc = "done" /\ (~call.html \/ call.threw)) => call.products = <<>>

\* C22: every product that leaves the search of a scraper has a price above
\* zero and a name that is not empty.
C22_PriceAndName ==
  \A i \in 1..Len(call.products) :
    /\ call.products[i].current_price > 0
    /\ call.products[i].name # ""

\* a Flipkart search that dropped a listing without a name or a price and
\* returned another
C22_Witness ==
  /\ call.pc = "done"
  /\ call.scraper = "flipkart"
  /\ call.dropped
  /\ call.products # <<>>

\* the waits C25 names for the GETs seen so far: delay x k before attempt
\* k = 2, 3, and after a 429 the seconds of its Retry-After header, 60 when
\* it is missing; 0 stands for a header that is not a number of seconds
ClaimedWaits(seen) ==
  LET before(k) == IF k >= 2 THEN <<Delay * k>> ELSE <<>>
      after(k) == IF seen[k].status # 429 THEN <<>>
                  ELSE IF seen[k].retry_after = "missing" THEN <<DefaultRetryAfter>>
                  ELSE IF seen[k].retry_after = "30" THEN <<30>>
                  ELSE <<0>>
      upto(k) == IF k = 0 THEN <<>> ELSE before(k) \o after(k)
  IN (IF Len(seen) >= 1 THEN upto(1) ELSE <<>>)
       \o (IF Len(seen) >= 2 THEN upto(2) ELSE <<>>)
       \o (IF Len(seen) >= 3 THEN upto(3) ELSE <<>>)

\* C25: the page fetch of a scraper makes at most 3 GETs and ends with the
\* page of the first GET that answers 200 with more than 1000 characters,
\* or without a page after the third; before attempt k = 2, 3 it waits
\* delay x k, after a 429 it waits the Retry-After seconds (60 without the
\* header), and no two attempts use the same user agent.
C25_FetchPage ==
  (call.scraper # "mock" /\ call.session) =>
    /\ call.gets <= Attempts
    /\ call.pc # "fetch" => (call.html \/ call.gets = Attempts)
    /\ call.html => call.seen[Len(call.seen)].status = 200
    /\ Len(call.slept) = Len(ClaimedWaits(call.seen))
    /\ \A i \in 1..Len(call.slept) :
         IF ClaimedWaits(call.seen)[i] = 0 THEN call.slept[i] > 0
         ELSE call.slept[i] = ClaimedWaits(call.seen)[i]
    /\ \A i, j \in 1..Len(call.agents) : i # j => call.agents[i] # call.agents[j]

\* every request has returned
AllReturned == \A p \in Procs : call.procs[p].pc = "done"

\* C23: a request on a cart id that does not exist returns the not-found
\* outcome (None from get, False from a mutation), and a request that met a
\* transient failure of the store returns an outcome the caller can tell
\* apart from that not-found outcome.
C23_NotFoundOutcome ==
  \A p \in Procs :
    call.procs[p].pc = "done" =>
      /\ call.procs[p].op.cart_id = MissingCart =>
           call.procs[p].ret = nothing_done(call.procs[p].op)
      /\ call.procs[p].fault =>
           call.procs[p].ret # nothing_done(call.procs[p].op)

\* what a cart holds, whatever the ids of its items
Contents(cart) ==
  [i \in 1..Len(cart.items) |->
     <<cart.items[i].product.platform_product_id, cart.items[i].selected_platform,
       cart.items[i].quantity>>]

\* the requests addressed to cart c that change a cart and met no failure
MutationsOf(c) ==
  {p \in Procs : /\ call.procs[p].op.cart_id = c
                 /\ call.procs[p].op.kind # "get"
                 /\ ~call.procs[p].fault}

\* the carts reached from cart by running the requests of S one after the
\* other, in every order
RECURSIVE Serial(_, _)
Serial(cart, S) ==
  IF S = {} THEN {cart}
  ELSE UNION {Serial(mutate(cart, call.procs[p].op, FreshId, 0).cart, S \ {p}) : p \in S}

\* C28: once every request has returned, a cart that at most one request
\* was addressed to holds what running that request alone on it gives,
\* whatever the requests on the other carts did, on the dict and on the
\* collection.
C28_DifferentCarts ==
  AllReturned =>
    \A c \in DOMAIN carts :
      Cardinality({p \in Procs : call.procs[p].op.cart_id = c}) <= 1 =>
        \E cart \in Serial(StoredCarts[c], MutationsOf(c)) :
          Contents(carts[c]) = Contents(cart)

\* two requests changed two different carts of the collection
C28_Witness ==
  /\ AllReturned
  /\ call.use_mongodb
  /\ \E p, q \in Procs :
       /\ call.procs[p].op.cart_id = 1 /\ call.procs[p].ret = "True"
       /\ call.procs[q].op.cart_id = 2 /\ call.procs[q].ret = "True"
       /\ \A r \in Procs \ {p, q} : call.procs[r].op.cart_id = MissingCart
  /\ Contents(carts[1]) # Contents(StoredCarts[1])
  /\ Contents(carts[2]) # Contents(StoredCarts[2])

\* the requests whose update_one on cart c went through
WritersOf(c) ==
  {p \in MutationsOf(c) : call.procs[p].cart # None /\ call.procs[p].ret = "True"}

\* C29: once every request has returned, a cart of the collection holds the
\* item list one of the requests on it wrote (the list it held before when
\* none wrote), and a cart of the dict holds what running the requests on
\* it one after the other, in some order, gives.
C29_LastWriteWins ==
  AllReturned =>
    \A c \in DOMAIN carts :
      IF call.use_mongodb
      THEN IF WritersOf(c) = {}
           THEN Contents(carts[c]) = Contents(StoredCarts[c])
           ELSE \E p \in WritersOf(c) : Contents(carts[c]) = Contents(call.procs[p].cart[1])
      ELSE \E cart \in Serial(StoredCarts[c], MutationsOf(c)) :
             Contents(carts[c]) = Contents(cart)

\* two adds of different products to cart 1 of the collection both returned
\* True and the cart holds what no order of the two gives
C29_Witness ==
  /\ AllReturned
  /\ call.use_mongodb
  /\ \E p, q \in Procs :
       /\ p # q
       /\ call.procs[p].op.kind = "add" /\ call.procs[q].op.kind = "add"
       /\ call.procs[p].op.cart_id = 1 /\ call.procs[q].op.cart_id = 1
       /\ call.procs[p].op.product # call.procs[q].op.product
       /\ call.procs[p].ret = "True" /\ call.procs[q].ret = "True"
       /\ \A r \in Procs \ {p, q} : call.procs[r].op.cart_id = MissingCart
  /\ \A cart \in Serial(StoredCarts[1], MutationsOf(1)) :
       Contents(carts[1]) # Contents(cart)

\* C26: "30 mins" parses to 30, "2 hours" to 120, "3 days" to 4320 and
\* "sometime" to the sentinel 999, and of any two items of a cart, one with
\* an unrecognized delivery time and one with a recognized time, the
\* recognized one has the smaller parsed minutes, so that an ascending
\* ordering places it first.
C26_SentinelLast ==
  /\ ParsedMinutes[Mins30] = 30
  /\ ParsedMinutes[Hours2] = 120
  /\ ParsedMinutes[Days3] = 4320
  /\ ParsedMinutes[Sometime] = 999
  /\ \A c \in DOMAIN carts :
       \A i, j \in Idx(carts[c].items) :
         (/\ carts[c].items[i].product.delivery_time = Sometime
          /\ carts[c].items[j].product.delivery_time # Sometime)
           => item_minutes(carts[c].items[j]) < item_minutes(carts[c].items[i])

\* C27: the delivery_time of an optimization result is rendered from M, the
\* largest parsed delivery minutes among the kept items: "M mins" below 60,
\* "(M div 60) hours" below 1440, "(M div 1440) days" from 1440 on.
C27_DeliveryLabel ==
  \A c \in DOMAIN carts, m \in Modes, f \in BOOLEAN :
    carts[c].items # <<>> =>
      LET res == optimize_cart(c, m, f).ret[1]
          kept == res.cart_items
      IN \E k \in Idx(kept) :
           LET M == item_minutes(kept[k])
           IN /\ \A l \in Idx(kept) : item_minutes(kept[l]) <= M
              /\ res.delivery_time
                   = (IF M < 60 THEN IntToStr(M) \o <<" ","m","i","n","s">>
                      ELSE IF M < 1440
                      THEN IntToStr(M \div 60) \o <<" ","h","o","u","r","s">>
                      ELSE IntToStr(M \div 1440) \o <<" ","d","a","y","s">>)

\* fastest_delivery keeps two items, the first of 90 minutes and the second
\* of 3 days, and the label is the one of the second
C27_Witness ==
  \E c \in DOMAIN carts :
    LET res == optimize_cart(c, "fastest_delivery", FALSE).ret
    IN /\ res # None
       /\ Len(res[1].cart_items) = 2
       /\ res[1].cart_items[1].product.delivery_time = Mins90
       /\ res[1].cart_items[2].product.delivery_time = Days3
       /\ res[1].delivery_time = Days3

\* what the two tiers of the current call gave
Found == scrape(SearchRequest, call.settings, call.real, call.mock)

\* the requested platforms that have a mock scraper and no real one
MockOnly ==
  {p \in {"amazon", "meesho", "blinkit"} :
     \E i \in 1..Len(platforms_to_search(SearchRequest)) :
       platforms_to_search(SearchRequest)[i] = p}

\* the mock tier supplied products of platform p
MockUsed(p) ==
  /\ Found.mock_products # None
  /\ \E i \in 1..Len(Found.mock_products[1]) : Found.mock_products[1][i].platform = p

\* C24: the tiers are tried per platform: with the mock fallback enabled and
\* the mock scrapers working, a requested platform whose real tier yields
\* nothing (Amazon, Meesho and Blinkit have no real scraper) gets its mock
\* products even when the real tier of another platform succeeded; and a
\* platform gets mock products only after the real tier was tried.
C24_TiersPerPlatform ==
  (call.settings.declared /\ call.mock = "ok") =>
    \A p \in MockOnly :
      /\ (call.settings.ENABLE_MOCK_FALLBACK /\ ~call.settings.IS_VERCEL) => MockUsed(p)
      /\ MockUsed(p) => Found.real_products # None

====
